---------------------------- MODULE Spec2Model ----------------------------
(***************************************************************************)
(* One invocation of a katello "distribution" action (List or Info):       *)
(* parse -> check_options -> run, with the collaborators get_repo,         *)
(* DistributionAPI.distributions_by_repo and DistributionAPI.distribution  *)
(* recorded in a call log and the printer recorded by its columns, header  *)
(* and the print events it received.                                       *)
(***************************************************************************)
EXTENDS Integers, Sequences, FiniteSets, TLC

\* ---------------------------------------------------------------- bounds
MaxRepoId == 2      \* get_repo answers with ids 1..MaxRepoId
MaxDists == 2       \* distinct distribution records the server holds
MaxListLen == 1     \* longest list distributions_by_repo answers with

\* ---------------------------------------------------------------- values
\* Python values that flow through the options and the collaborators:
\* None, a string, or an integer (ids decoded from JSON).
None == [t |-> "none", s |-> "", n |-> 0]
Str(x) == [t |-> "str", s |-> x, n |-> 0]
IntV(k) == [t |-> "int", s |-> "", n |-> k]

\* Python truthiness, as used by "if not repoId".
Truthy(v) == \/ (v.t = "str" /\ v.s # "")
             \/ (v.t = "int" /\ v.n # 0)

Digit(d) == CASE d = 0 -> "0" [] d = 1 -> "1" [] d = 2 -> "2" [] d = 3 -> "3"
              [] d = 4 -> "4" [] d = 5 -> "5" [] d = 6 -> "6" [] d = 7 -> "7"
              [] d = 8 -> "8" [] d = 9 -> "9"

RECURSIVE IntToStr(_)
IntToStr(k) == IF k < 10 THEN Digit(k) ELSE IntToStr(k \div 10) \o Digit(k % 10)

\* "%s" % v
Fmt(v) == CASE v.t = "none" -> "None"
            [] v.t = "str" -> v.s
            [] v.t = "int" -> IntToStr(v.n)

\* ---------------------------------------------------------------- options
Keys == {"repo_id", "repo", "org", "environment", "product", "id"}

\* destinations each action's setup_parser declares
ListOptions == {"repo_id", "repo", "org", "environment", "product"}
InfoOptions == {"repo_id", "id"}

\* default of --environment in List.setup_parser
EnvDefault == "Library"

\* values a flag can be given on the command line (None: flag not given)
ArgValues(k) ==
    CASE k = "repo_id" -> {None, Str(""), Str("7"), Str("42")}
      [] k = "repo" -> {None, Str(""), Str("fedora")}
      [] k = "org" -> {None, Str(""), Str("ACME")}
      [] k = "product" -> {None, Str(""), Str("OS")}
      [] k = "environment" -> {None, Str(""), Str("Dev")}
      [] k = "id" -> {None, Str(""), Str("ks1")}

Declared(a) == IF a = "List" THEN ListOptions ELSE InfoOptions

\* command lines of action a: undeclared flags cannot be given
ArgvSet(a) == {f \in [Keys -> UNION {ArgValues(k) : k \in Keys}] :
                 \A k \in Keys : /\ f[k] \in ArgValues(k)
                                 /\ (k \notin Declared(a) => f[k] = None)}

\* optparse: a flag that was not given takes its declared default
ParseArgs(a, av) ==
    [k \in Keys |-> IF a = "List" /\ k = "environment" /\ av[k] = None
                    THEN Str(EnvDefault) ELSE av[k]]

\* ---------------------------------------------------------------- validator
\* a key has a present (non-empty) value
exists(o, k) == o[k].t # "none" /\ ~(o[k].t = "str" /\ o[k].s = "")

\* require(keys): the keys that are reported as missing
require(o, ks) == {ks[i] : i \in {j \in 1..Len(ks) : ~exists(o, ks[j])}}

List_required_2 == <<"repo", "org">>
List_required == <<"repo", "org", "product">>

Info_required_1 == <<"repo_id">>
Info_required == <<"repo_id", "id">>

List_check_options_none(o) == {}
List_check_options(o) ==
    IF ~exists(o, "repo_id") THEN require(o, List_required) ELSE {}

Info_check_options(o) == require(o, Info_required)

\* ---------------------------------------------------------------- printer
Column(key, multiline, show_with) ==
    [key |-> key, multiline |-> multiline, show_with |-> show_with]

add_column(cols, c) == Append(cols, c)

\* a column tagged with VerboseStrategy is shown only in verbose mode
Visible(c, verb) == c.show_with = "always" \/ verb

VisibleKeys(cols, verb) ==
    LET vis == SelectSeq(cols, LAMBDA c : Visible(c, verb))
    IN [i \in 1..Len(vis) |-> vis[i].key]

ListColumns_noVerbose == <<Column("id", FALSE, "always"),
                           Column("description", FALSE, "always"),
                           Column("files", TRUE, "always")>>
ListColumns == <<Column("id", FALSE, "always"),
                 Column("description", FALSE, "always"),
                 Column("files", TRUE, "VerboseStrategy")>>

InfoColumns_swapped == <<Column("id", FALSE, "always"),
                         Column("description", FALSE, "always"),
                         Column("family", FALSE, "always"),
                         Column("version", FALSE, "always"),
                         Column("variant", FALSE, "always"),
                         Column("files", TRUE, "always")>>
InfoColumns == <<Column("id", FALSE, "always"),
                 Column("description", FALSE, "always"),
                 Column("family", FALSE, "always"),
                 Column("variant", FALSE, "always"),
                 Column("version", FALSE, "always"),
                 Column("files", TRUE, "VerboseStrategy")>>

RECURSIVE AddColumns(_, _)
AddColumns(cols, new) ==
    IF new = <<>> THEN cols
    ELSE AddColumns(add_column(cols, Head(new)), Tail(new))

ListHeaderPrefix == "Distribution List For Repo "
ListHeader(id) == ListHeaderPrefix \o Fmt(id)
InfoHeader == "Distribution Information"

\* ---------------------------------------------------------------- server
DistRecord(i) ==
    [id |-> "ks" \o IntToStr(i), description |-> "d" \o IntToStr(i),
     family |-> "rhel", variant |-> "", version |-> IntToStr(6 + i),
     files |-> [j \in 1..i |-> "f" \o IntToStr(j)]]

Records == {DistRecord(i) : i \in 1..MaxDists}

RECURSIVE SeqsUpTo(_, _)
SeqsUpTo(S, k) ==
    IF k = 0 THEN {<<>>}
    ELSE LET shorter == SeqsUpTo(S, k - 1)
         IN shorter \cup {Append(q, x) : q \in shorter, x \in S}

RecordLists == SeqsUpTo(Records, MaxListLen)

\* ids of the repos get_repo can answer with
RepoIds == {IntV(i) : i \in 1..MaxRepoId} \cup {Str("fedora-17")}

EX_OK == 0

\* ---------------------------------------------------------------- state
VARIABLES action, verbose, argv, opts, optErrors, checks, pc,
          repoId, repoName, orgName, envName, prodName, dist_id,
          repo, result, calls, columns, header, printed, status

locals == <<repoId, repoName, orgName, envName, prodName, dist_id, repo>>
input == <<action, verbose, argv, opts>>
printer == <<columns, header, printed>>
vars == <<action, verbose, argv, opts, optErrors, checks, pc,
          repoId, repoName, orgName, envName, prodName, dist_id,
          repo, result, calls, columns, header, printed, status>>

Init ==
    /\ action \in {"List", "Info"}
    /\ verbose = FALSE
    /\ argv = [k \in Keys |-> None]
    /\ opts = [k \in Keys |-> None]
    /\ optErrors = {}
    /\ checks = 0
    /\ pc = "start"
    /\ repoId = None /\ repoName = None /\ orgName = None
    /\ envName = None /\ prodName = None /\ dist_id = None
    /\ repo = <<>>
    /\ result = <<>>
    /\ calls = <<>>
    /\ columns = <<>>
    /\ header = <<>>
    /\ printed = <<>>
    /\ status = <<>>

Call(fn, args, ok) == [fn |-> fn, args |-> args, ok |-> ok]

\* an exception raised by a collaborator is not caught in run
Swallow(ok, next) == next
Propagate(ok, next) == IF ok THEN next ELSE "raised"

get_option(o, k) == o[k]

\* ---------------------------------------------------------------- framework
Parse ==
    /\ pc = "start"
    /\ \E av \in ArgvSet(action), vb \in BOOLEAN :
          /\ argv' = av
          /\ verbose' = vb
          /\ opts' = ParseArgs(action, av)
    /\ pc' = "parsed"
    /\ UNCHANGED <<action, optErrors, checks, locals, result, calls, printer, status>>

CheckOptions ==
    /\ pc = "parsed"
    /\ optErrors' = IF action = "List" THEN List_check_options(opts)
                    ELSE Info_check_options(opts)
    /\ checks' = checks + 1
    /\ pc' = IF optErrors' = {} THEN "run" ELSE "invalid"
    /\ UNCHANGED <<input, locals, result, calls, printer, status>>

\* ---------------------------------------------------------------- List.run
ListGetOptions ==
    /\ pc = "run" /\ action = "List"
    /\ repoId' = get_option(opts, "repo_id")
    /\ repoName' = get_option(opts, "repo")
    /\ orgName' = get_option(opts, "org")
    /\ envName' = get_option(opts, "environment")
    /\ prodName' = get_option(opts, "product")
    /\ pc' = "list_columns"
    /\ UNCHANGED <<input, optErrors, checks, dist_id, repo, result, calls, printer, status>>

ListAddColumns ==
    /\ pc = "list_columns"
    /\ columns' = AddColumns(columns, ListColumns)
    /\ pc' = "list_resolve"
    /\ UNCHANGED <<input, optErrors, checks, locals, result, calls, header, printed, status>>

ListNeedsResolve_always(id) == TRUE
ListNeedsResolve(id) == ~Truthy(id)

GetRepoArgs_swapped(org, prod, name, env) == <<org, name, prod, env>>
GetRepoArgs(org, prod, name, env) == <<org, prod, name, env>>

ListResolve ==
    /\ pc = "list_resolve"
    /\ IF ListNeedsResolve(repoId)
       THEN \E ok \in BOOLEAN :
              /\ calls' = Append(calls,
                    Call("get_repo", GetRepoArgs(orgName, prodName, repoName, envName), ok))
              /\ pc' = Propagate(ok, "list_header")
              /\ IF ok
                 THEN \E r \in RepoIds : repo' = <<[id |-> r]>> /\ repoId' = r
                 ELSE UNCHANGED <<repo, repoId>>
       ELSE /\ pc' = "list_header"
            /\ UNCHANGED <<calls, repo, repoId>>
    /\ UNCHANGED <<input, optErrors, checks, repoName, orgName, envName, prodName,
                   dist_id, result, printer, status>>

ListSetHeader ==
    /\ pc = "list_header"
    /\ header' = <<ListHeader(repoId)>>
    /\ pc' = "list_call"
    /\ UNCHANGED <<input, optErrors, checks, locals, result, calls, columns, printed, status>>

ListDistributions ==
    /\ pc = "list_call"
    /\ \E ok \in BOOLEAN :
          /\ calls' = Append(calls, Call("distributions_by_repo", <<repoId>>, ok))
          /\ pc' = Propagate(ok, "list_print")
          /\ IF ok THEN \E ds \in RecordLists : result' = <<ds>>
             ELSE UNCHANGED result
    /\ UNCHANGED <<input, optErrors, checks, locals, printer, status>>

PrintEvent(kind, data) ==
    [kind |-> kind, header |-> header, columns |-> columns,
     shown |-> VisibleKeys(columns, verbose), data |-> data]

ListPrint_skip ==
    /\ pc = "list_print"
    /\ pc' = "list_return"
    /\ UNCHANGED <<input, optErrors, checks, locals, result, calls, printer, status>>
ListPrint ==
    /\ pc = "list_print"
    /\ printed' = Append(printed, PrintEvent("print_items", result[1]))
    /\ pc' = "list_return"
    /\ UNCHANGED <<input, optErrors, checks, locals, result, calls, columns, header, status>>

ListReturn ==
    /\ pc = "list_return"
    /\ status' = <<EX_OK>>
    /\ pc' = "done"
    /\ UNCHANGED <<input, optErrors, checks, locals, result, calls, printer>>

\* ---------------------------------------------------------------- Info.run
InfoGetOptions_columnsFirst ==
    /\ pc = "run" /\ action = "Info"
    /\ repoId' = get_option(opts, "repo_id")
    /\ dist_id' = get_option(opts, "id")
    /\ columns' = AddColumns(columns, InfoColumns)
    /\ pc' = "info_call"
    /\ UNCHANGED <<input, optErrors, checks, repoName, orgName, envName, prodName,
                   repo, result, calls, header, printed, status>>
InfoGetOptions ==
    /\ pc = "run" /\ action = "Info"
    /\ repoId' = get_option(opts, "repo_id")
    /\ dist_id' = get_option(opts, "id")
    /\ pc' = "info_call"
    /\ UNCHANGED <<input, optErrors, checks, repoName, orgName, envName, prodName,
                   repo, result, calls, printer, status>>

InfoDistribution ==
    /\ pc = "info_call"
    /\ \E ok \in BOOLEAN :
          /\ calls' = Append(calls, Call("distribution", <<repoId, dist_id>>, ok))
          /\ pc' = Propagate(ok, "info_columns")
          /\ IF ok THEN \E d \in Records : result' = <<d>>
             ELSE UNCHANGED result
    /\ UNCHANGED <<input, optErrors, checks, locals, printer, status>>

InfoAddColumns ==
    /\ pc = "info_columns"
    /\ columns' = AddColumns(columns, InfoColumns)
    /\ pc' = "info_header"
    /\ UNCHANGED <<input, optErrors, checks, locals, result, calls, header, printed, status>>

InfoSetHeader ==
    /\ pc = "info_header"
    /\ header' = <<InfoHeader>>
    /\ pc' = "info_print"
    /\ UNCHANGED <<input, optErrors, checks, locals, result, calls, columns, printed, status>>

InfoPrint ==
    /\ pc = "info_print"
    /\ printed' = Append(printed, PrintEvent("print_item", result[1]))
    /\ pc' = "info_return"
    /\ UNCHANGED <<input, optErrors, checks, locals, result, calls, columns, header, status>>

InfoReturn ==
    /\ pc = "info_return"
    /\ status' = <<EX_OK>>
    /\ pc' = "done"
    /\ UNCHANGED <<input, optErrors, checks, locals, result, calls, printer>>

Next ==
    \/ Parse
    \/ CheckOptions
    \/ ListGetOptions
    \/ ListAddColumns
    \/ ListResolve
    \/ ListSetHeader
    \/ ListDistributions
    \/ ListPrint
    \/ ListReturn
    \/ InfoGetOptions
    \/ InfoDistribution
    \/ InfoAddColumns
    \/ InfoSetHeader
    \/ InfoPrint
    \/ InfoReturn

Spec == Init /\ [][Next]_vars

TypeOK ==
    /\ action \in {"List", "Info"}
    /\ verbose \in BOOLEAN
    /\ optErrors \subseteq Keys
    /\ checks \in 0..1
    /\ Len(calls) <= 2
    /\ Len(printed) <= 1
    /\ status \in {<<>>, <<EX_OK>>}

\* ---------------------------------------------------------------- properties
CallsOf(fn) == SelectSeq(calls, LAMBDA c : c.fn = fn)

\* the flag k was given on the command line with a non-empty value
Given(k) == argv[k].t = "str" /\ argv[k].s # ""

MainCall == IF action = "List" THEN "distributions_by_repo" ELSE "distribution"

MainCallDone == \E i \in 1..Len(calls) : calls[i].fn = MainCall /\ calls[i].ok

RequiredAbsent ==
    IF action = "List"
    THEN ~Given("repo_id") /\ (~Given("repo") \/ ~Given("org") \/ ~Given("product"))
    ELSE ~Given("repo_id") \/ ~Given("id")

ColumnKeys(cols) == [i \in 1..Len(cols) |-> cols[i].key]

\* C1: check_options runs (once) and passes before any collaborator is
\* called, and an invocation whose required fields are absent makes no
\* collaborator call at all.
C1_ValidationBeforeCalls ==
    /\ checks <= 1
    /\ calls # <<>> => (checks = 1 /\ optErrors = {})
    /\ RequiredAbsent => calls = <<>>
    /\ (checks = 1 /\ RequiredAbsent) => pc = "invalid"

C1_Witness ==
    /\ action = "List" /\ pc = "invalid" /\ checks = 1
    /\ Given("repo") /\ Given("org") /\ ~Given("product") /\ ~Given("repo_id")
    /\ calls = <<>>

\* C2: in List, a supplied repo_id means get_repo is never called and
\* distributions_by_repo is called with exactly that repo_id, whatever
\* repo, org, product and environment are.
C2_RepoIdSkipsResolution ==
    (action = "List" /\ Given("repo_id")) =>
        /\ CallsOf("get_repo") = <<>>
        /\ \A i \in 1..Len(calls) :
              calls[i].fn = "distributions_by_repo" => calls[i].args = <<argv["repo_id"]>>
        /\ pc \in {"list_print", "list_return", "done", "raised"} =>
              Len(CallsOf("distributions_by_repo")) = 1

C2_Witness ==
    /\ action = "List" /\ pc = "done"
    /\ argv["repo_id"] = Str("42")
    /\ Given("repo") /\ Given("org") /\ Given("product") /\ Given("environment")
    /\ calls = <<Call("distributions_by_repo", <<Str("42")>>, TRUE)>>

\* C3: in List without repo_id but with repo, org and product, get_repo is
\* called exactly once with (org, product, repo, environment), environment
\* being the supplied value or "Library", and the id of the repo it returns
\* is the id passed to distributions_by_repo.
C3_ResolvesByName ==
    (action = "List" /\ ~Given("repo_id")
        /\ Given("repo") /\ Given("org") /\ Given("product")) =>
        /\ Len(CallsOf("get_repo")) <= 1
        /\ pc \in {"list_header", "list_call", "list_print", "list_return", "done", "raised"} =>
              /\ Len(CallsOf("get_repo")) = 1
              /\ calls[1].fn = "get_repo"
              /\ calls[1].args = <<argv["org"], argv["product"], argv["repo"],
                                   IF argv["environment"] = None
                                   THEN Str("Library") ELSE argv["environment"]>>
        /\ \A i \in 1..Len(calls) :
              calls[i].fn = "distributions_by_repo" =>
                 /\ i = 2 /\ calls[1].ok
                 /\ Len(repo) = 1
                 /\ calls[i].args = <<repo[1].id>>

C3_Witness ==
    /\ action = "List" /\ pc = "done"
    /\ argv["repo_id"] = None /\ argv["environment"] = None
    /\ calls = <<Call("get_repo", <<Str("ACME"), Str("OS"), Str("fedora"), Str("Library")>>, TRUE),
                 Call("distributions_by_repo", <<IntV(1)>>, TRUE)>>

\* C4: Info fails validation whenever repo_id or id is missing and then
\* never calls the distribution API; Info never calls get_repo.
C4_InfoValidation ==
    action = "Info" =>
        /\ (checks = 1 /\ (~Given("repo_id") \/ ~Given("id"))) =>
              /\ pc = "invalid"
              /\ optErrors # {}
              /\ CallsOf("distribution") = <<>>
        /\ CallsOf("get_repo") = <<>>

C4_Witness ==
    /\ action = "Info" /\ pc = "invalid"
    /\ Given("repo_id") /\ ~Given("id")
    /\ optErrors = {"id"}

\* C5: each collaborator is called at most once per invocation (List at
\* most two calls, Info at most one); a failed call is the last call, run
\* is left by the exception, nothing is printed and no status is returned.
C5_NoRetriesTerminalFailure ==
    /\ \A fn \in {"get_repo", "distributions_by_repo", "distribution"} :
          Len(CallsOf(fn)) <= 1
    /\ Len(calls) <= (IF action = "List" THEN 2 ELSE 1)
    /\ \A i \in 1..Len(calls) :
          ~calls[i].ok => /\ i = Len(calls)
                          /\ pc = "raised"
                          /\ printed = <<>>
                          /\ status = <<>>
    /\ pc = "raised" => (calls # <<>> /\ ~calls[Len(calls)].ok)

C5_Witness ==
    /\ action = "List" /\ pc = "raised"
    /\ Len(calls) = 2 /\ calls[1].ok /\ ~calls[2].ok
    /\ printed = <<>> /\ status = <<>>

\* C6: a run that returns, returns 0, and only after validation passed, the
\* main entity call succeeded and the records were handed to the printer
\* exactly once; a failed validation or a failed call never yields 0.
C6_ExitStatus ==
    /\ status # <<>> =>
          /\ status = <<0>>
          /\ pc = "done"
          /\ checks = 1 /\ optErrors = {}
          /\ MainCallDone
          /\ \A i \in 1..Len(calls) : calls[i].ok
          /\ Len(printed) = 1
          /\ printed[1].kind = (IF action = "List" THEN "print_items" ELSE "print_item")
          /\ printed[1].data = result[1]
    /\ pc = "done" => status = <<0>>
    /\ pc \in {"invalid", "raised"} => status = <<>>
    /\ Len(printed) <= 1

C6_Witness ==
    /\ action = "Info" /\ pc = "done" /\ status = <<0>>
    /\ Len(printed) = 1 /\ printed[1].kind = "print_item"

\* C7: when print_items is called the columns are id, description, files in
\* that order, files multiline and shown only under verbose, and the header
\* is "Distribution List For Repo <repoId>" with the id that was passed to
\* distributions_by_repo (the supplied repo_id or the resolved one).
C7_ListOutput ==
    /\ (action = "List" /\ printed # <<>>) => printed[1].kind = "print_items"
    /\ \A i \in 1..Len(printed) :
          printed[i].kind = "print_items" =>
             LET p == printed[i]
                 call == CallsOf("distributions_by_repo")[1]
                 id == call.args[1]
             IN /\ ColumnKeys(p.columns) = <<"id", "description", "files">>
                /\ \A j \in 1..3 :
                      /\ p.columns[j].multiline = (j = 3)
                      /\ p.columns[j].show_with = (IF j = 3 THEN "VerboseStrategy" ELSE "always")
                /\ p.shown = (IF verbose THEN <<"id", "description", "files">>
                              ELSE <<"id", "description">>)
                /\ call.ok
                /\ id = (IF Given("repo_id") THEN argv["repo_id"] ELSE repo[1].id)
                /\ p.header = <<"Distribution List For Repo " \o Fmt(id)>>
                /\ argv["repo_id"] = Str("7") => p.header = <<"Distribution List For Repo 7">>
                /\ id = IntV(2) => p.header = <<"Distribution List For Repo 2">>
                /\ id = Str("fedora-17") => p.header = <<"Distribution List For Repo fedora-17">>

C7_Witness ==
    /\ action = "List" /\ ~verbose /\ argv["repo_id"] = Str("7")
    /\ Len(printed) = 1
    /\ printed[1].header = <<"Distribution List For Repo 7">>
    /\ printed[1].shown = <<"id", "description">>
    /\ printed[1].data = <<DistRecord(1)>>

\* C8: when print_item is called the columns are id, description, family,
\* variant, version, files in that order, files multiline and shown only
\* under verbose, the header is "Distribution Information" and the record
\* printed is the one the distribution API returned for (repo_id, id).
C8_InfoOutput ==
    /\ (action = "Info" /\ printed # <<>>) => printed[1].kind = "print_item"
    /\ \A i \in 1..Len(printed) :
          printed[i].kind = "print_item" =>
             LET p == printed[i]
             IN /\ ColumnKeys(p.columns) =
                      <<"id", "description", "family", "variant", "version", "files">>
                /\ \A j \in 1..6 :
                      /\ p.columns[j].multiline = (j = 6)
                      /\ p.columns[j].show_with = (IF j = 6 THEN "VerboseStrategy" ELSE "always")
                /\ p.shown = (IF verbose
                              THEN <<"id", "description", "family", "variant", "version", "files">>
                              ELSE <<"id", "description", "family", "variant", "version">>)
                /\ p.header = <<"Distribution Information">>
                /\ calls = <<Call("distribution", <<argv["repo_id"], argv["id"]>>, TRUE)>>
                /\ p.data = result[1]
                /\ p.data \in Records

C8_Witness ==
    /\ action = "Info" /\ verbose
    /\ Len(printed) = 1
    /\ printed[1].data = DistRecord(2)
    /\ printed[1].shown = <<"id", "description", "family", "variant", "version", "files">>

\* C9 as stated: the steps of run occur in the order resolve, main API call,
\* configure the printer columns, print, return; no column is added before
\* resolution and the main API call have completed.
C9_Original ==
    /\ columns # <<>> => MainCallDone
    /\ \A i, j \in 1..Len(calls) :
          (calls[i].fn = "get_repo" /\ calls[j].fn = MainCall) => i < j
    /\ printed # <<>> => columns # <<>>
    /\ status # <<>> => printed # <<>>

\* C9 amended: in Info the columns are configured after the distribution
\* call succeeded; in List the columns are added first, before any
\* collaborator is called, the header is set after resolution and before the
\* main API call; in both, the records are printed only after the main API
\* call succeeded with columns and header configured, and success is
\* returned last.
C9_Amended ==
    /\ action = "Info" => (columns # <<>> => MainCallDone)
    /\ action = "Info" => (header # <<>> => columns = InfoColumns)
    /\ action = "List" =>
          /\ calls # <<>> => columns # <<>>
          /\ pc \in {"list_resolve", "list_header", "list_call"} => columns # <<>>
          /\ header # <<>> =>
                (~Given("repo_id") =>
                    \E i \in 1..Len(calls) : calls[i].fn = "get_repo" /\ calls[i].ok)
          /\ CallsOf(MainCall) # <<>> => header # <<>>
    /\ \A i, j \in 1..Len(calls) :
          (calls[i].fn = "get_repo" /\ calls[j].fn = MainCall) => i < j
    /\ printed # <<>> => (MainCallDone /\ columns # <<>> /\ header # <<>>)
    /\ status # <<>> => printed # <<>>

C9_Witness ==
    /\ action = "List" /\ pc = "list_resolve"
    /\ ~Given("repo_id")
    /\ columns # <<>> /\ calls = <<>>

\* C10: whenever List passes check_options and run calls get_repo, repo, org
\* and product are all present, also when repo_id was given as an empty
\* value.
C10_ValidationAgreesWithRun ==
    \A i \in 1..Len(calls) :
       calls[i].fn = "get_repo" =>
          /\ Given("repo") /\ Given("org") /\ Given("product")
          /\ \A j \in 1..3 : Truthy(calls[i].args[j])

C10_Witness ==
    /\ action = "List" /\ argv["repo_id"] = Str("")
    /\ \E i \in 1..Len(calls) : calls[i].fn = "get_repo"
=============================================================================
